---- MODULE Spec2Model ----
(***************************************************************************)
(* Model of livedata.py: the budget normaliser, the project categoriser,   *)
(* clean_dataframe (header aliasing and per-row cleaning), the demo data,  *)
(* the data loading section, the summary KPIs and the Department view.     *)
(*                                                                         *)
(* Python str values are TLA+ strings; characters are strings of length 1. *)
(* Python floats are exact decimals [m |-> mantissa, e |-> digits after    *)
(* the point], i.e. m * 10^(-e).                                           *)
(***************************************************************************)
EXTENDS Integers, Sequences, FiniteSets, TLC

VARIABLES pc, value, budget, description, project_type, df, cleaned, recleaned,
          view, selected_dept, data_sheets, last_source, uploaded_file_hash,
          source_option, uploaded_file, load_outcome, kpi, filters, snapshot

\* the arguments and results of the functions called on their own
calls == <<value, budget, description, project_type, df, cleaned, recleaned>>

\* st.session_state, the sidebar widgets, what the data loading section of the
\* last run came to, the rendered KPIs, and the filter widgets and the Snapshot
\* of the Department view
session == <<view, selected_dept, data_sheets, last_source, uploaded_file_hash,
             source_option, uploaded_file, load_outcome, kpi, filters, snapshot>>

vars == <<pc, calls, session>>

(***************************************************************************)
(* Bounds of the explored inputs.                                          *)
(***************************************************************************)
MaxInt == 3
ThreshSpan == 1
MaxWords == 2
MaxCols == 2
MaxRows == 2
MaxTotal == 50

(***************************************************************************)
(* Python str helpers.                                                     *)
(***************************************************************************)
Ch(s, i) == SubSeq(s, i, i)

UpperChars == "ABCDEFGHIJKLMNOPQRSTUVWXYZ"
LowerChars == "abcdefghijklmnopqrstuvwxyz"
DigitChars == "0123456789"

\* position of the character c in alphabet, 0 when it is not there
IndexMap(alphabet) ==
  [c \in {Ch(alphabet, i) : i \in 1..Len(alphabet)} |->
     CHOOSE i \in 1..Len(alphabet) : Ch(alphabet, i) = c]

UpperIndex == IndexMap(UpperChars)
LowerIndex == IndexMap(LowerChars)
DigitIndex == IndexMap(DigitChars)

IsUpper(c) == c \in DOMAIN UpperIndex
IsLower(c) == c \in DOMAIN LowerIndex
IsDigit(c) == c \in DOMAIN DigitIndex
IsSpace(c) == c = " "

LowerChar(c) == IF IsUpper(c) THEN Ch(LowerChars, UpperIndex[c]) ELSE c

UpperChar(c) == IF IsLower(c) THEN Ch(UpperChars, LowerIndex[c]) ELSE c

RECURSIVE lower(_)
lower(s) == IF s = "" THEN "" ELSE LowerChar(Ch(s, 1)) \o lower(SubSeq(s, 2, Len(s)))

RECURSIVE upper(_)
upper(s) == IF s = "" THEN "" ELSE UpperChar(Ch(s, 1)) \o upper(SubSeq(s, 2, Len(s)))

RECURSIVE lstrip(_)
lstrip(s) ==
  IF s # "" /\ IsSpace(Ch(s, 1)) THEN lstrip(SubSeq(s, 2, Len(s))) ELSE s

RECURSIVE rstrip(_)
rstrip(s) ==
  IF s # "" /\ IsSpace(Ch(s, Len(s))) THEN rstrip(SubSeq(s, 1, Len(s) - 1)) ELSE s

strip(s) == rstrip(lstrip(s))

\* s.replace(',', '')
RECURSIVE remove_commas(_)
remove_commas(s) ==
  IF s = "" THEN ""
  ELSE (IF Ch(s, 1) = "," THEN "" ELSE Ch(s, 1)) \o remove_commas(SubSeq(s, 2, Len(s)))

\* Python's `sub in s`
contains(s, sub) ==
  \E i \in 1..(Len(s) - Len(sub) + 1) : SubSeq(s, i, i + Len(sub) - 1) = sub

\* a local variable: x is computed once and Body is evaluated with its value
Local(x, Body(_)) == CHOOSE out \in {Body(val) : val \in {x}} : TRUE

(***************************************************************************)
(* Python values that a spreadsheet cell can hold.                         *)
(***************************************************************************)
Missing == [kind |-> "missing"]
IntVal(n) == [kind |-> "int", n |-> n]
FloatVal(m, e) == [kind |-> "float", m |-> m, e |-> e]
StrVal(s) == [kind |-> "str", s |-> s]

Abs(n) == IF n < 0 THEN -n ELSE n

RECURSIVE Pow10(_)
Pow10(k) == IF k = 0 THEN 1 ELSE 10 * Pow10(k - 1)

\* the e digits after the decimal point of m * 10^(-e)
RECURSIVE FracDigits(_, _)
FracDigits(m, e) ==
  IF e = 0 THEN "" ELSE FracDigits(m \div 10, e - 1) \o ToString(m % 10)

\* the digits after the point as repr prints them: no trailing zeros, one digit at least
RECURSIVE ShortestFraction(_)
ShortestFraction(digits) ==
  IF Len(digits) > 1 /\ Ch(digits, Len(digits)) = "0"
    THEN ShortestFraction(SubSeq(digits, 1, Len(digits) - 1))
  ELSE IF digits = "" THEN "0"
  ELSE digits

\* str(value)
py_str(v) ==
  CASE v.kind = "missing" -> "nan"
    [] v.kind = "int" -> ToString(v.n)
    [] v.kind = "float" ->
         (IF v.m < 0 THEN "-" ELSE "")
           \o ToString(Abs(v.m) \div Pow10(v.e)) \o "."
           \o ShortestFraction(FracDigits(Abs(v.m) % Pow10(v.e), v.e))
    [] v.kind = "str" -> v.s

\* pd.isna(value)
isna(v) == v.kind = "missing"

(***************************************************************************)
(* A DataFrame: the column labels in order, and the rows, each a sequence  *)
(* of cells aligned with the columns.                                      *)
(***************************************************************************)
EmptyFrame == [columns |-> <<>>, rows |-> <<>>]

HasColumn(frame, name) == \E c \in 1..Len(frame.columns) : frame.columns[c] = name

ColumnIndex(frame, name) == CHOOSE c \in 1..Len(frame.columns) : frame.columns[c] = name

\* frame[name] of row r
Cell(frame, r, name) == frame.rows[r][ColumnIndex(frame, name)]

\* frame[name] = cells: replaces the column in place, or appends a new one
SetColumn(frame, name, cells) ==
  IF HasColumn(frame, name)
    THEN [frame EXCEPT !.rows =
            [r \in 1..Len(frame.rows) |->
               [frame.rows[r] EXCEPT ![ColumnIndex(frame, name)] = cells[r]]]]
    ELSE [columns |-> Append(frame.columns, name),
          rows |-> [r \in 1..Len(frame.rows) |-> Append(frame.rows[r], cells[r])]]

(***************************************************************************)
(* st.session_state as the first run of the script finds it.               *)
(***************************************************************************)
None == "<None>"
NoKpi == [rendered |-> FALSE]

\* what the data loading section can come to: nothing to load, excel_file is
\* None, raw_sheets is None, raw_sheets is an empty dict, the cleaned sheets are
\* stored, the demo data is stored
NoLoad == "no load"
FetchFailed == "excel_file is None"
ReadFailed == "raw_sheets is None"
NoSheets == "raw_sheets is empty"
Loaded == "loaded"
DemoLoaded == "demo data"

\* the Department view's widgets as they are first drawn, and no Snapshot
NoFilters ==
  [sel_mandal |-> "All", show_pending |-> FALSE, show_issues |-> FALSE, show_priority |-> FALSE]
NoSnapshot == [rendered |-> FALSE]

GoogleSheet == "Google Sheet (Live)"
UploadExcel == "Upload Excel File"
DemoData == "Use Demo Data"
SourceOptions == {GoogleSheet, UploadExcel, DemoData}

SessionStart ==
  /\ view = "Home"
  /\ selected_dept = None
  /\ data_sheets = <<>>
  /\ last_source = None
  /\ uploaded_file_hash = None
  /\ source_option = GoogleSheet
  /\ uploaded_file = None
  /\ load_outcome = NoLoad
  /\ kpi = NoKpi
  /\ filters = NoFilters
  /\ snapshot = NoSnapshot

(***************************************************************************)
(* normalize_budget                                                        *)
(***************************************************************************)
\* end of the run of digits that starts at position i (i - 1 when there is none)
RECURSIVE DigitRunEnd(_, _)
DigitRunEnd(s, i) ==
  IF i <= Len(s) /\ IsDigit(Ch(s, i)) THEN DigitRunEnd(s, i + 1) ELSE i - 1

IsSign(c) == c = "-" \/ c = "+"

\* [-+]?\d*\.\d+ anchored at i: the end of the match, or 0
DecimalMatchEnd(s, i) ==
  LET j == IF i <= Len(s) /\ IsSign(Ch(s, i)) THEN i + 1 ELSE i
      k == DigitRunEnd(s, j) + 1
  IN  IF k + 1 <= Len(s) /\ Ch(s, k) = "." /\ IsDigit(Ch(s, k + 1))
        THEN DigitRunEnd(s, k + 1)
        ELSE 0

\* \d+ anchored at i: the end of the match, or 0
IntegerMatchEnd(s, i) ==
  IF i <= Len(s) /\ IsDigit(Ch(s, i)) THEN DigitRunEnd(s, i) ELSE 0

\* the alternation anchored at i, first alternative first
TokenEnd(s, i) ==
  IF DecimalMatchEnd(s, i) # 0 THEN DecimalMatchEnd(s, i) ELSE IntegerMatchEnd(s, i)

\* re.findall(r"[-+]?\d*\.\d+|\d+", s): the first match, "" when there is none
FirstNumericToken(s) ==
  IF \E i \in 1..Len(s) : TokenEnd(s, i) # 0
    THEN LET i == CHOOSE i \in 1..Len(s) :
                    /\ TokenEnd(s, i) # 0
                    /\ \A h \in 1..(i - 1) : TokenEnd(s, h) = 0
         IN  SubSeq(s, i, TokenEnd(s, i))
    ELSE ""

RECURSIVE DigitsToInt(_)
DigitsToInt(s) ==
  IF s = "" THEN 0
  ELSE 10 * DigitsToInt(SubSeq(s, 1, Len(s) - 1)) + (DigitIndex[Ch(s, Len(s))] - 1)

\* float(token) for a token of the pattern above
to_float(tok) ==
  Local(IF IsSign(Ch(tok, 1)) THEN SubSeq(tok, 2, Len(tok)) ELSE tok, LAMBDA body :
  Local(DigitRunEnd(body, 1), LAMBDA ip :
  Local(IF ip < Len(body) THEN SubSeq(body, ip + 2, Len(body)) ELSE "", LAMBDA frac :
  Local(DigitsToInt(SubSeq(body, 1, ip) \o frac), LAMBDA mag :
    [m |-> IF Ch(tok, 1) = "-" THEN -mag ELSE mag, e |-> Len(frac)]))))

Zero == [m |-> 0, e |-> 0]

\* number * 100
Times100(x) ==
  IF x.e >= 2 THEN [m |-> x.m, e |-> x.e - 2]
  ELSE [m |-> x.m * Pow10(2 - x.e), e |-> 0]

\* number / 100000
Div100000(x) == [m |-> x.m, e |-> x.e + 5]

\* number > n
GreaterThan(x, n) == x.m > n * Pow10(x.e)

\* equality of two decimals as numbers
NumEq(x, y) == x.m * Pow10(y.e) = y.m * Pow10(x.e)

\* normalize_budget with the "lakh" test ahead of the "crore"/"cr" test
normalize_budget_lakh_first(v) ==
  IF isna(v) THEN Zero
  ELSE Local(strip(remove_commas(lower(py_str(v)))), LAMBDA s_val :
       Local(FirstNumericToken(s_val), LAMBDA numeric_part :
         IF numeric_part = "" THEN Zero
         ELSE Local(to_float(numeric_part), LAMBDA number :
                IF contains(s_val, "lakh") THEN number
                ELSE IF contains(s_val, "crore") \/ contains(s_val, "cr")
                  THEN Times100(number)
                ELSE IF GreaterThan(number, 10000) THEN Div100000(number)
                ELSE number)))

normalize_budget(v) ==
  IF isna(v) THEN Zero
  ELSE Local(strip(remove_commas(lower(py_str(v)))), LAMBDA s_val :
       Local(FirstNumericToken(s_val), LAMBDA numeric_part :
         IF numeric_part = "" THEN Zero
         ELSE Local(to_float(numeric_part), LAMBDA number :
                IF contains(s_val, "crore") \/ contains(s_val, "cr")
                  THEN Times100(number)
                ELSE IF contains(s_val, "lakh") THEN number
                ELSE IF GreaterThan(number, 10000) THEN Div100000(number)
                ELSE number)))

(***************************************************************************)
(* Budget inputs: missing, integers, floats and strings.                   *)
(***************************************************************************)
BudgetInts == (0..MaxInt) \cup ((10000 - ThreshSpan)..(10000 + ThreshSpan)) \cup {45, 50, 1500000}

BudgetPrefixes == {"", " ", "-", "+", "--", "Rs. ", "- "}
BudgetFractions == {"", ".5", ".25", "."}
BudgetSuffixes == {"", " Crore", "cr", " Lakh", " lakh cr", " CRORE LAKH", " L", " to 2 Cr", "e+16"}
BudgetWholeParts == {ToString(n) : n \in BudgetInts} \cup {"", "1,50,000", "10,000"}

BudgetStrings ==
  {p \o w \o f \o x : p \in BudgetPrefixes, w \in BudgetWholeParts,
                      f \in BudgetFractions, x \in BudgetSuffixes}

BudgetInputs ==
  {Missing}
    \cup {IntVal(n) : n \in BudgetInts} \cup {IntVal(-n) : n \in BudgetInts}
    \cup {FloatVal(m, 1) : m \in {-15, -5, 0, 5, 600, 100000, 100001}}
    \cup {StrVal(s) : s \in BudgetStrings}

NotRun == [m |-> -1, e |-> -1]

InitBudget ==
  /\ pc = "budget"
  /\ value \in BudgetInputs
  /\ budget = NotRun
  /\ description = Missing
  /\ project_type = ""
  /\ df = EmptyFrame
  /\ cleaned = EmptyFrame
  /\ recleaned = EmptyFrame
  /\ SessionStart

NormalizeBudget ==
  /\ pc = "budget"
  /\ budget' = normalize_budget(value)
  /\ pc' = "budget_done"
  /\ UNCHANGED <<value, description, project_type, df, cleaned, recleaned, session>>

NextBudget == NormalizeBudget

SpecBudget == InitBudget /\ [][NextBudget]_vars

(***************************************************************************)
(* Properties of normalize_budget (SpecBudget).                            *)
(***************************************************************************)
Returned == pc = "budget_done"

\* C1: for every budget input (missing, number or string) normalize_budget
\* returns a value >= 0, also when the first numeric token carries a minus sign.
BudgetNeverNegative == Returned => budget.m >= 0

Dec(n) == [m |-> n, e |-> 0]

\* the decimal x * 10^k
Shift(x, k) ==
  IF k < 0 THEN [m |-> x.m, e |-> x.e - k]
  ELSE IF x.e >= k THEN [m |-> x.m, e |-> x.e - k]
  ELSE [m |-> x.m * Pow10(k - x.e), e |-> 0]

\* C3: the unit of the first numeric token n is resolved in the order
\* "crore"/"cr" => n*100, "lakh" => n, n > 10000 => n/100000, otherwise n;
\* a missing input or a string without a numeric token gives 0.0.
UnitPrecedence ==
  Returned =>
    LET s == strip(remove_commas(lower(py_str(value))))
        tok == FirstNumericToken(s)
        n == to_float(tok)
        crore == contains(s, "crore") \/ contains(s, "cr")
        lakh == contains(s, "lakh")
        large == n.m > 10000 * Pow10(n.e)
    IN  /\ (value = Missing \/ tok = "") => budget = Zero
        /\ (value # Missing /\ tok # "") =>
             /\ crore => budget = Shift(n, 2)
             /\ (~crore /\ lakh) => budget = n
             /\ (~crore /\ ~lakh /\ large) => budget = Shift(n, -5)
             /\ (~crore /\ ~lakh /\ ~large) => budget = n
        /\ value = StrVal("2 Crore") => NumEq(budget, Dec(200))
        /\ value = StrVal("50 Lakh") => NumEq(budget, Dec(50))
        /\ value = StrVal("1500000") => NumEq(budget, Dec(15))
        /\ value = StrVal("45") => NumEq(budget, Dec(45))
        /\ value \in {StrVal("10000"), IntVal(10000)} => NumEq(budget, Dec(10000))
        /\ value = StrVal("3 lakh cr") => NumEq(budget, Dec(300))

\* a string with both "lakh" and "cr" has been multiplied by 100
UnitPrecedenceWitness ==
  Returned /\ value = StrVal("3 lakh cr") /\ budget = Dec(300)

(***************************************************************************)
(* categorize_project_revised                                              *)
(***************************************************************************)
ContainsAny(desc, keywords) == \E k \in keywords : contains(desc, k)

\* 1. AWC Building
RuleAWC(desc) == ContainsAny(desc, {"ANGANWADI", "AWC"})

\* 2. Medical Building
RuleMedical(desc) ==
  \/ ContainsAny(desc, {"HOSPITAL", "PHC", "SUB HEALTH CENTER"})
  \/ (contains(desc, "MEDICAL") /\ (contains(desc, "COLLEGE") \/ contains(desc, "HEALTH")))

\* 3. School/Hostel/Education Building
RuleSchool(desc) ==
  ContainsAny(desc, {"SCHOOL", "KGBV", "ZPHS", "HOSTEL", "PATASHALA", "EDUCATION", "LIBRARY"})

\* 4. Water/Borewell
RuleWater(desc) ==
  ContainsAny(desc, {"BORE WELL", "SUBMERSIBLE PUMPSET", "WATER SUPPLY", "RWS", "SUMP",
                     "OVERHEAD", "PIPELINE"})

\* 5. CC Road/Drain
RuleCCRoad(desc) == ContainsAny(desc, {"CC ROAD", "CC DRAIN", "SIDE DRAIN"})

\* 6. Major Road/Bridge
RoadKeywords ==
  {"PWD ROAD", "ZP ROAD", "RNB", "RENEWAL", "WIDENING", "STRENGTHENING", "BRIDGE", "ROAD",
   "R/F", "IMPROVEMENTS"}

\* rule 6 without the bare "ROAD" keyword
RuleMajorRoadNamedRoadsOnly(desc) == ContainsAny(desc, RoadKeywords \ {"ROAD"})

RuleMajorRoad(desc) == ContainsAny(desc, RoadKeywords)

\* 7. Other Building/Civil Works
RuleOther(desc) ==
  ContainsAny(desc, {"BUILDING", "GP", "MPP", "COMMUNITY HALL", "MARKET", "BUS STAND SHELTER",
                     "TEMPLE", "MASJID", "COMPLEX", "WALL", "PACS", "ARCH GATE",
                     "PILGRIM SHED", "PRASADAM COUNTERS", "KALYANA KATTA", "VAIKUNTA DHAMAM",
                     "COMPOUND WALL", "ELECTRICAL", "VIGRAHAM", "HARATHI", "PILLARS",
                     "CONSTRUCTION OF", "BALANCE WORK", "FORMATION", "QUARTERS",
                     "RESIDENTIAL"})

\* the rules with Major Road/Bridge tested ahead of School/Hostel
categorize_road_before_school(d) ==
  Local(upper(py_str(d)), LAMBDA desc :
    IF RuleAWC(desc) THEN "AWC Building"
    ELSE IF RuleMedical(desc) THEN "Medical Building"
    ELSE IF RuleMajorRoad(desc) THEN "Major Road/Bridge"
    ELSE IF RuleSchool(desc) THEN "School/Hostel"
    ELSE IF RuleWater(desc) THEN "Water/Borewell"
    ELSE IF RuleCCRoad(desc) THEN "CC Road/Drain"
    ELSE IF RuleOther(desc) THEN "Other Building/Civil Works"
    ELSE "Uncategorized")

categorize_project_revised(d) ==
  Local(upper(py_str(d)), LAMBDA desc :
    IF RuleAWC(desc) THEN "AWC Building"
    ELSE IF RuleMedical(desc) THEN "Medical Building"
    ELSE IF RuleSchool(desc) THEN "School/Hostel"
    ELSE IF RuleWater(desc) THEN "Water/Borewell"
    ELSE IF RuleCCRoad(desc) THEN "CC Road/Drain"
    ELSE IF RuleMajorRoad(desc) THEN "Major Road/Bridge"
    ELSE IF RuleOther(desc) THEN "Other Building/Civil Works"
    ELSE "Uncategorized")

(***************************************************************************)
(* Descriptions: up to MaxWords words of a vocabulary, joined by spaces.   *)
(***************************************************************************)
Vocabulary ==
  {"Anganwadi", "awc", "Hospital", "Medical", "College", "School", "hostel", "Bore Well",
   "RWS", "CC Road", "Side Drain", "PWD Road", "Bridge", "road", "Broadband", "Abridged",
   "Building", "Compound Wall", "Miscellaneous Item", "Center", "T02"}

RECURSIVE Phrases(_)
Phrases(n) ==
  IF n = 0 THEN {""}
  ELSE Phrases(n - 1)
         \cup {(IF p = "" THEN "" ELSE p \o " ") \o w : p \in Phrases(n - 1) \ {""}, w \in Vocabulary}
         \cup Vocabulary

Descriptions == {Missing} \cup {StrVal(s) : s \in Phrases(MaxWords)}

InitCategory ==
  /\ pc = "categorize"
  /\ description \in Descriptions
  /\ project_type = ""
  /\ value = Missing
  /\ budget = NotRun
  /\ df = EmptyFrame
  /\ cleaned = EmptyFrame
  /\ recleaned = EmptyFrame
  /\ SessionStart

Categorize ==
  /\ pc = "categorize"
  /\ project_type' = categorize_project_revised(description)
  /\ pc' = "categorize_done"
  /\ UNCHANGED <<value, budget, description, df, cleaned, recleaned, session>>

NextCategory == Categorize

SpecCategory == InitCategory /\ [][NextCategory]_vars

(***************************************************************************)
(* Properties of categorize_project_revised (SpecCategory).                *)
(***************************************************************************)
Categorized == pc = "categorize_done"

CategoryOrder ==
  <<"AWC Building", "Medical Building", "School/Hostel", "Water/Borewell", "CC Road/Drain",
    "Major Road/Bridge", "Other Building/Civil Works">>

RuleMatches(i, desc) ==
  CASE i = 1 -> RuleAWC(desc)
    [] i = 2 -> RuleMedical(desc)
    [] i = 3 -> RuleSchool(desc)
    [] i = 4 -> RuleWater(desc)
    [] i = 5 -> RuleCCRoad(desc)
    [] i = 6 -> RuleMajorRoad(desc)
    [] i = 7 -> RuleOther(desc)

\* C6: the seven rules are evaluated in the fixed order and the category of
\* the first matching rule is returned; a description matching rules i < j
\* gets rule i's category, one matching no rule is "Uncategorized".
FirstMatchingRuleWins ==
  Categorized =>
    LET desc == upper(py_str(description))
    IN  /\ \A i \in 1..7 :
             (RuleMatches(i, desc) /\ \A h \in 1..(i - 1) : ~RuleMatches(h, desc))
               => project_type = CategoryOrder[i]
        /\ (\A i \in 1..7 : ~RuleMatches(i, desc)) => project_type = "Uncategorized"
        /\ description = StrVal("School road") => project_type = "School/Hostel"
        /\ description = StrVal("Miscellaneous Item") => project_type = "Uncategorized"

\* a description with both "SCHOOL" and "ROAD" has been classified
FirstMatchingRuleWinsWitness ==
  Categorized /\ description = StrVal("School road") /\ project_type = "School/Hostel"

MentionsRoadOrBridge(desc) == contains(desc, "ROAD") \/ contains(desc, "BRIDGE")

\* C7 as stated: every description containing "ROAD" or "BRIDGE" anywhere is
\* categorised "Major Road/Bridge".
RoadAlwaysMajorRoad ==
  (Categorized /\ MentionsRoadOrBridge(upper(py_str(description))))
    => project_type = "Major Road/Bridge"

\* C7 amended: a description containing "ROAD" or "BRIDGE" anywhere (any case,
\* also inside a longer token) is categorised "Major Road/Bridge" unless one of
\* the rules 1 to 5 matches it, and then it gets that earlier rule's category.
RoadMajorUnlessEarlierRule ==
  (Categorized /\ MentionsRoadOrBridge(upper(py_str(description)))) =>
    LET desc == upper(py_str(description))
    IN  IF \E h \in 1..5 : RuleMatches(h, desc)
          THEN \E h \in 1..5 : RuleMatches(h, desc) /\ project_type = CategoryOrder[h]
          ELSE project_type = "Major Road/Bridge"

\* "ROAD" inside the longer token "Broadband" has matched rule 6
RoadInsideTokenWitness ==
  Categorized /\ description = StrVal("Broadband T02") /\ project_type = "Major Road/Bridge"

(***************************************************************************)
(* clean_dataframe                                                         *)
(***************************************************************************)
\* the elif chain with the "completed" test ahead of the "stage" test
RenamedColumnCompletedFirst(col) ==
  Local(lower(col), LAMBDA c_lower :
    IF contains(c_lower, "work name") THEN "Work Name"
    ELSE IF contains(c_lower, "budget") THEN "Budget (Lakhs)"
    ELSE IF contains(c_lower, "mandal") THEN "Mandal"
    ELSE IF contains(c_lower, "village") THEN "Village"
    ELSE IF contains(c_lower, "agency") THEN "Agency"
    ELSE IF contains(c_lower, "contractor") THEN "Contractor"
    ELSE IF contains(c_lower, "completed") THEN "Is Completed"
    ELSE IF contains(c_lower, "stage") THEN "Status"
    ELSE IF contains(c_lower, "issues") THEN "Issues"
    ELSE IF contains(c_lower, "admin sanction date") THEN "Sanction Date"
    ELSE IF contains(c_lower, "scheme") THEN "Scheme"
    ELSE IF contains(c_lower, "priority") THEN "Priority"
    ELSE IF contains(c_lower, "sl. no") THEN "Sl. No."
    ELSE col)

\* the elif chain of the column loop: the label a raw header is renamed to
\* (a header with no entry in col_map keeps its label)
RenamedColumn(col) ==
  Local(lower(col), LAMBDA c_lower :
    IF contains(c_lower, "work name") THEN "Work Name"
    ELSE IF contains(c_lower, "budget") THEN "Budget (Lakhs)"
    ELSE IF contains(c_lower, "mandal") THEN "Mandal"
    ELSE IF contains(c_lower, "village") THEN "Village"
    ELSE IF contains(c_lower, "agency") THEN "Agency"
    ELSE IF contains(c_lower, "contractor") THEN "Contractor"
    ELSE IF contains(c_lower, "stage") THEN "Status"
    ELSE IF contains(c_lower, "issues") THEN "Issues"
    ELSE IF contains(c_lower, "completed") THEN "Is Completed"
    ELSE IF contains(c_lower, "admin sanction date") THEN "Sanction Date"
    ELSE IF contains(c_lower, "scheme") THEN "Scheme"
    ELSE IF contains(c_lower, "priority") THEN "Priority"
    ELSE IF contains(c_lower, "sl. no") THEN "Sl. No."
    ELSE col)

\* df.rename(columns=col_map)
rename(frame) ==
  [frame EXCEPT !.columns = [c \in 1..Len(frame.columns) |-> RenamedColumn(frame.columns[c])]]

IsLetter(c) == IsUpper(c) \/ IsLower(c)

\* str.title(): a letter is upper-cased after a non-letter, lower-cased after a letter
RECURSIVE TitleFrom(_, _)
TitleFrom(s, afterLetter) ==
  IF s = "" THEN ""
  ELSE (IF afterLetter THEN LowerChar(Ch(s, 1)) ELSE UpperChar(Ch(s, 1)))
         \o TitleFrom(SubSeq(s, 2, Len(s)), IsLetter(Ch(s, 1)))

title(s) == TitleFrom(s, FALSE)

MandalNullNames == {"Nan", "NaN", "", "None", "Nat"}

\* the Mandal cleaning without str.strip()
clean_mandal_unstripped(v) ==
  Local(title(py_str(IF isna(v) THEN StrVal("N/A") ELSE v)), LAMBDA titled :
    StrVal(IF titled \in MandalNullNames THEN "N/A" ELSE titled))

\* fillna("N/A"), astype(str).str.strip().str.title(), null names -> "N/A"
clean_mandal(v) ==
  Local(title(strip(py_str(IF isna(v) THEN StrVal("N/A") ELSE v))), LAMBDA titled :
    StrVal(IF titled \in MandalNullNames THEN "N/A" ELSE titled))

\* a whole string of the form [-+]?\d+(\.\d+)?
IsNumeral(s) ==
  LET j == IF s # "" /\ IsSign(Ch(s, 1)) THEN 2 ELSE 1
      k == DigitRunEnd(s, j)
  IN  /\ k >= j
      /\ \/ k = Len(s)
         \/ k + 1 < Len(s) /\ Ch(s, k + 1) = "." /\ DigitRunEnd(s, k + 2) = Len(s)

\* pd.to_numeric(errors='coerce') of one cell: a decimal, or Missing
to_numeric(v) ==
  CASE v.kind = "missing" -> Missing
    [] v.kind = "int" -> FloatVal(v.n, 0)
    [] v.kind = "float" -> v
    [] v.kind = "str" ->
         IF IsNumeral(v.s) THEN LET x == to_float(v.s) IN FloatVal(x.m, x.e) ELSE Missing

\* astype(int): truncation toward zero
truncate(x) ==
  IF x.m < 0 THEN -(Abs(x.m) \div Pow10(x.e)) ELSE x.m \div Pow10(x.e)

\* pd.to_numeric(..., errors='coerce').fillna(0).astype(int)
clean_priority(v) ==
  Local(to_numeric(v), LAMBDA n : IntVal(IF isna(n) THEN 0 ELSE truncate(n)))

\* row[name] == 1
EqualsOne(v) ==
  \/ v.kind = "int" /\ v.n = 1
  \/ v.kind = "float" /\ v.m = Pow10(v.e)

StatusNullNames == {"nan", "none", "", "nat"}

\* determine_status with the status text tested ahead of the completion flag
determine_status_text_first(frame, r) ==
  IF HasColumn(frame, "Status")
    THEN Local(strip(lower(py_str(Cell(frame, r, "Status")))), LAMBDA val :
           IF val \in StatusNullNames THEN "N/A"
           ELSE IF contains(val, "complete") THEN "Completed"
           ELSE "In Progress")
  ELSE IF HasColumn(frame, "Is Completed") /\ EqualsOne(Cell(frame, r, "Is Completed"))
    THEN "Completed"
  ELSE "N/A"

\* determine_status that takes any status text but "" for a stage of work
determine_status_blank_only(frame, r) ==
  IF HasColumn(frame, "Is Completed") /\ EqualsOne(Cell(frame, r, "Is Completed"))
    THEN "Completed"
  ELSE IF HasColumn(frame, "Status")
    THEN Local(strip(lower(py_str(Cell(frame, r, "Status")))), LAMBDA val :
           IF val = "" THEN "N/A"
           ELSE IF contains(val, "complete") THEN "Completed"
           ELSE "In Progress")
  ELSE "N/A"

determine_status(frame, r) ==
  IF HasColumn(frame, "Is Completed") /\ EqualsOne(Cell(frame, r, "Is Completed"))
    THEN "Completed"
  ELSE IF HasColumn(frame, "Status")
    THEN Local(strip(lower(py_str(Cell(frame, r, "Status")))), LAMBDA val :
           IF val \in StatusNullNames THEN "N/A"
           ELSE IF contains(val, "complete") THEN "Completed"
           ELSE "In Progress")
  ELSE "N/A"

\* fillna("").astype(str)
clean_issues(v) == StrVal(IF isna(v) THEN "" ELSE py_str(v))

Rows(frame) == 1..Len(frame.rows)

\* the statements of clean_dataframe, in order
CleanSteps == <<"rename", "department", "budget", "mandal", "priority", "status", "issues">>

\* one statement of clean_dataframe applied to the frame it finds
CleanStep(step, d, dept_name) ==
  CASE step = "rename" -> rename(d)
    [] step = "department" ->
         IF dept_name # ""
           THEN SetColumn(d, "Department", [r \in Rows(d) |-> StrVal(dept_name)])
           ELSE d
    [] step = "budget" ->
         IF HasColumn(d, "Budget (Lakhs)")
           THEN SetColumn(d, "Normalized Budget",
                  [r \in Rows(d) |->
                     LET b == normalize_budget(Cell(d, r, "Budget (Lakhs)"))
                     IN  FloatVal(b.m, b.e)])
           ELSE SetColumn(d, "Normalized Budget", [r \in Rows(d) |-> FloatVal(0, 0)])
    [] step = "mandal" ->
         IF HasColumn(d, "Mandal")
           THEN SetColumn(d, "Mandal", [r \in Rows(d) |-> clean_mandal(Cell(d, r, "Mandal"))])
           ELSE SetColumn(d, "Mandal", [r \in Rows(d) |-> StrVal("N/A")])
    [] step = "priority" ->
         IF ~HasColumn(d, "Priority")
           THEN SetColumn(d, "Priority", [r \in Rows(d) |-> IntVal(0)])
           ELSE SetColumn(d, "Priority",
                  [r \in Rows(d) |-> clean_priority(Cell(d, r, "Priority"))])
    [] step = "status" ->
         SetColumn(d, "Status Label", [r \in Rows(d) |-> StrVal(determine_status(d, r))])
    [] step = "issues" ->
         IF HasColumn(d, "Issues")
           THEN SetColumn(d, "Issues", [r \in Rows(d) |-> clean_issues(Cell(d, r, "Issues"))])
           ELSE SetColumn(d, "Issues", [r \in Rows(d) |-> StrVal("")])

\* the statements steps run one after the other, each on the result of the one before
RECURSIVE RunSteps(_, _, _)
RunSteps(steps, d, dept_name) ==
  IF steps = <<>> THEN d
  ELSE Local(CleanStep(Head(steps), d, dept_name),
             LAMBDA next : RunSteps(Tail(steps), next, dept_name))

\* clean_dataframe on a table that first loses its rows with a missing cell
clean_dataframe_dropna(raw, dept_name) ==
  RunSteps(CleanSteps,
           [raw EXCEPT !.rows = SelectSeq(raw.rows, LAMBDA row : \A c \in 1..Len(row) : ~isna(row[c]))],
           dept_name)

clean_dataframe(raw, dept_name) == RunSteps(CleanSteps, raw, dept_name)

(***************************************************************************)
(* Raw tables: up to MaxCols headers of the pool, in pool order, no two    *)
(* renamed to the same label.  A table has either one row whose cells      *)
(* range over the full pool of their header, or up to MaxRows rows whose   *)
(* cells range over the plain pool of their header.                        *)
(***************************************************************************)
BudgetCells ==
  {Missing, IntVal(60), StrVal("2 Crore"), StrVal("-1.5"), StrVal("150 Crore"), IntVal(1500000)}
MandalCells ==
  {Missing, StrVal(""), StrVal("  "), StrVal(" nAN "), StrVal("NaT"), StrVal("NONE"),
   StrVal("nat"), StrVal(" mahamutharam"), StrVal("maha dev pur "), StrVal("n/a"),
   StrVal("Nan Pur"), IntVal(7)}
StatusCells ==
  {Missing, StrVal(""), StrVal(" NaT "), StrVal("None"), StrVal("Painting"),
   StrVal("Work Completed 100%"), StrVal("INCOMPLETE"), StrVal("Completed"), IntVal(0)}
CompletedCells == {Missing, IntVal(0), IntVal(1), IntVal(2), FloatVal(10, 1), StrVal("1")}
PriorityCells ==
  {Missing, IntVal(0), IntVal(1), IntVal(2), IntVal(-1), FloatVal(17, 1), FloatVal(-5, 1),
   StrVal("1"), StrVal("5"), StrVal("high"), StrVal("")}
IssuesCells == {Missing, StrVal(""), StrVal("-"), StrVal("Funds"), StrVal("NaN"), StrVal(" - ")}
OtherCells == {StrVal("x")}

HeaderPool ==
  <<"Budget (Lakhs)", "Mandal", "Status", "Present Stage", "Is Completed", "Priority",
    "Issues", "Work Name", "NAME OF WORK NAME", "work name budget", "BUDGET", "mandal",
    "Village", "VILLAGE", "agency", "Contractor Name", "STAGE", "status", "STATUS",
    "ISSUES", "completed?", "Admin Sanction Date", "admin sanction date", "sanction date",
    "Sanction Date", "SCHEME", "priority", "PRIORITY", "Sl. No.", "sl. no", "SL. NO.",
    "Remarks", "Completed Stage", "Scheme Priority">>

Headers == {HeaderPool[i] : i \in 1..Len(HeaderPool)}

HeaderCells ==
  [h \in Headers |->
     CASE h = "Budget (Lakhs)" -> BudgetCells
       [] h = "Mandal" -> MandalCells
       [] h \in {"Status", "Present Stage"} -> StatusCells
       [] h = "Is Completed" -> CompletedCells
       [] h = "Priority" -> PriorityCells
       [] h = "Issues" -> IssuesCells
       [] OTHER -> OtherCells]

PlainCells ==
  [h \in Headers |->
     CASE h = "Budget (Lakhs)" -> {IntVal(60), StrVal("2 Crore")}
       [] h = "Mandal" -> {Missing, StrVal(" mahamutharam")}
       [] h \in {"Status", "Present Stage"} -> {StrVal("Painting"), StrVal("Completed")}
       [] h = "Is Completed" -> {IntVal(0), IntVal(1)}
       [] h = "Priority" -> {IntVal(1), StrVal("high")}
       [] h = "Issues" -> {Missing, StrVal("Funds")}
       [] OTHER -> OtherCells]

RenamedHeader == [h \in Headers |-> RenamedColumn(h)]

\* increasing positions of the pool
RECURSIVE Picks(_)
Picks(n) ==
  IF n = 0 THEN {<<>>}
  ELSE Picks(n - 1)
         \cup {Append(ix, i) : ix \in {x \in Picks(n - 1) : Len(x) = n - 1},
                               i \in 1..Len(HeaderPool)}

HeaderLists ==
  {cols \in {[c \in 1..Len(ix) |-> HeaderPool[ix[c]]] :
               ix \in {x \in Picks(MaxCols) : \A a, b \in 1..Len(x) : a < b => x[a] < x[b]}} :
     \A a, b \in 1..Len(cols) : a # b => RenamedHeader[cols[a]] # RenamedHeader[cols[b]]}

\* the rows that fit the headers cols: one cell of each header's pool
RECURSIVE RowsFor(_, _)
RowsFor(cols, pool) ==
  IF cols = <<>> THEN {<<>>}
  ELSE {Append(row, cell) : row \in RowsFor(SubSeq(cols, 1, Len(cols) - 1), pool),
                            cell \in pool[cols[Len(cols)]]}

RECURSIVE RowLists(_, _)
RowLists(cols, n) ==
  IF n = 0 THEN {<<>>}
  ELSE RowLists(cols, n - 1)
         \cup {Append(rs, row) : rs \in {x \in RowLists(cols, n - 1) : Len(x) = n - 1},
                                 row \in RowsFor(cols, PlainCells)}

RawFrames ==
  {[columns |-> x[1], rows |-> x[2]] :
     x \in UNION {{cols} \X (RowLists(cols, MaxRows) \cup {<<row>> : row \in RowsFor(cols, HeaderCells)}) :
                    cols \in HeaderLists}}

DeptName == "PR"

InitClean ==
  /\ pc = "clean"
  /\ df \in RawFrames
  /\ cleaned = EmptyFrame
  /\ recleaned = EmptyFrame
  /\ value = Missing
  /\ budget = NotRun
  /\ description = Missing
  /\ project_type = ""
  /\ SessionStart

CleanDataframe ==
  /\ pc = "clean"
  /\ cleaned' = clean_dataframe(df, DeptName)
  /\ pc' = "clean_done"
  /\ UNCHANGED <<value, budget, description, project_type, df, recleaned, session>>

\* the five cleaned fields of a table as a raw table under the headers that
\* clean_dataframe reads them from
canonical_fields(frame) ==
  [columns |-> <<"Budget (Lakhs)", "Mandal", "Priority", "Status", "Issues">>,
   rows |-> [r \in Rows(frame) |->
               <<Cell(frame, r, "Normalized Budget"), Cell(frame, r, "Mandal"),
                 Cell(frame, r, "Priority"), Cell(frame, r, "Status Label"),
                 Cell(frame, r, "Issues")>>]]

\* clean_dataframe is called on the fields that its first call produced
CleanAgain ==
  /\ pc = "clean_done"
  /\ recleaned' = clean_dataframe(canonical_fields(cleaned), DeptName)
  /\ pc' = "clean_twice"
  /\ UNCHANGED <<value, budget, description, project_type, df, cleaned, session>>

NextClean == CleanDataframe \/ CleanAgain

SpecClean == InitClean /\ [][NextClean]_vars

(***************************************************************************)
(* Properties of clean_dataframe (SpecClean).                              *)
(***************************************************************************)
Cleaned == pc \in {"clean_done", "clean_twice"}

\* the raw table had a column that was renamed to (or already was) name
HadColumn(name) == \E c \in 1..Len(df.columns) : cleaned.columns[c] = name

\* the raw cell of row r in the column renamed to name
RawCell(r, name) == df.rows[r][ColumnIndex(cleaned, name)]

\* C2: after clean_dataframe the Priority of every row is exactly 0 or 1,
\* whatever the raw priority (missing, text, or a number such as 2, 5 or -1).
PriorityZeroOrOne ==
  Cleaned => \A r \in Rows(cleaned) : Cell(cleaned, r, "Priority") \in {IntVal(0), IntVal(1)}

FlagIsOne(r) ==
  HadColumn("Is Completed") /\ RawCell(r, "Is Completed") \in {IntVal(1), FloatVal(10, 1)}

StatusLabel(r) == Cell(cleaned, r, "Status Label").s

\* C4: a row whose completion flag equals 1 is "Completed" whatever its
\* status text holds (empty, "nan", "Painting", or no Status column at all).
CompletionFlagWins ==
  Cleaned => \A r \in Rows(cleaned) : FlagIsOne(r) => StatusLabel(r) = "Completed"

\* a row with the flag 1 and the status text "Painting" has been labelled
CompletionFlagWinsWitness ==
  /\ Cleaned
  /\ \E r \in Rows(cleaned) :
       /\ FlagIsOne(r)
       /\ HadColumn("Status") /\ RawCell(r, "Status") = StrVal("Painting")
       /\ StatusLabel(r) = "Completed"

\* C5: a row without a completion flag equal to 1 is labelled by its
\* lower-cased, trimmed status text: "", "nan", "none", "nat" => "N/A", else a
\* text containing "complete" => "Completed", else "In Progress"; no Status
\* column => "N/A".  Every row's label is one of the three values.
StatusLabelFromText ==
  Cleaned =>
    \A r \in Rows(cleaned) :
      /\ StatusLabel(r) \in {"Completed", "In Progress", "N/A"}
      /\ ~FlagIsOne(r) =>
           IF ~HadColumn("Status") THEN StatusLabel(r) = "N/A"
           ELSE LET text == strip(lower(py_str(RawCell(r, "Status"))))
                IN  StatusLabel(r) =
                      IF text \in {"", "nan", "none", "nat"} THEN "N/A"
                      ELSE IF contains(text, "complete") THEN "Completed"
                      ELSE "In Progress"

\* a row with the flag 0 and the status text " NaT " has been labelled "N/A"
StatusLabelFromTextWitness ==
  /\ Cleaned
  /\ \E r \in Rows(cleaned) :
       /\ HadColumn("Is Completed") /\ RawCell(r, "Is Completed") = IntVal(0)
       /\ HadColumn("Status") /\ RawCell(r, "Status") = StrVal(" NaT ")
       /\ StatusLabel(r) = "N/A"

\* C9: after clean_dataframe the Mandal of every row is non-empty: "N/A" when
\* the raw value is missing, empty, blank or "nan"/"none"/"nat" in any letter
\* case or when there is no Mandal column, else the stripped, title-cased value.
MandalNeverEmpty ==
  Cleaned =>
    \A r \in Rows(cleaned) :
      LET out == Cell(cleaned, r, "Mandal")
      IN  /\ out.kind = "str" /\ out.s # ""
          /\ ~HadColumn("Mandal") => out.s = "N/A"
          /\ HadColumn("Mandal") =>
               LET raw == RawCell(r, "Mandal")
                   null == raw = Missing
                             \/ lower(strip(py_str(raw))) \in {"", "nan", "none", "nat"}
               IN  out.s = IF null THEN "N/A" ELSE title(strip(py_str(raw)))

\* a padded "nAN" has become "N/A"
MandalNeverEmptyWitness ==
  /\ Cleaned
  /\ \E r \in Rows(cleaned) :
       /\ HadColumn("Mandal") /\ RawCell(r, "Mandal") = StrVal(" nAN ")
       /\ Cell(cleaned, r, "Mandal") = StrVal("N/A")

CanonicalColumns ==
  {"Work Name", "Budget (Lakhs)", "Mandal", "Village", "Agency", "Contractor", "Status",
   "Issues", "Is Completed", "Sanction Date", "Scheme", "Priority", "Sl. No."}

\* C10 as stated: a raw header that names one of the thirteen target fields in
\* any letter case ("status", "STATUS", "sanction date") is mapped to the
\* field's canonical column.
HeaderInAnyCaseIsMapped ==
  Cleaned =>
    \A c \in 1..Len(df.columns) : \A f \in CanonicalColumns :
      lower(df.columns[c]) = lower(f) => cleaned.columns[c] = f

AliasRules ==
  <<<<"work name", "Work Name">>, <<"budget", "Budget (Lakhs)">>, <<"mandal", "Mandal">>,
    <<"village", "Village">>, <<"agency", "Agency">>, <<"contractor", "Contractor">>,
    <<"stage", "Status">>, <<"issues", "Issues">>, <<"completed", "Is Completed">>,
    <<"admin sanction date", "Sanction Date">>, <<"scheme", "Scheme">>,
    <<"priority", "Priority">>, <<"sl. no", "Sl. No.">>>>

\* C10 amended: a raw header is lower-cased and tested for the substrings
\* "work name", "budget", "mandal", "village", "agency", "contractor", "stage",
\* "issues", "completed", "admin sanction date", "scheme", "priority", "sl. no"
\* in this order; the first one it contains decides its canonical column, and a
\* header containing none of them ("status", "STATUS", "sanction date") passes
\* through unchanged.
HeaderKeywordIsMapped ==
  Cleaned =>
    \A c \in 1..Len(df.columns) :
      LET h == lower(df.columns[c])
          hits == {i \in 1..Len(AliasRules) : contains(h, AliasRules[i][1])}
      IN  IF hits = {} THEN cleaned.columns[c] = df.columns[c]
          ELSE \E i \in hits : /\ \A k \in hits : i <= k
                               /\ cleaned.columns[c] = AliasRules[i][2]

\* "status" has passed through and "Completed Stage", which contains two
\* keywords, has become Status
HeaderKeywordIsMappedWitness ==
  /\ Cleaned
  /\ df.columns = <<"status", "Completed Stage">>
  /\ cleaned.columns[1] = "status"
  /\ cleaned.columns[2] = "Status"

TwiceCleaned == pc = "clean_twice"

\* C13: normalization is idempotent: with the Normalized Budget, Mandal,
\* Priority, Status Label and Issues of a cleaned record taken as the raw
\* budget, mandal, priority, status and issues of a new record, cleaning again
\* gives the same Normalized Budget, Mandal, Priority, Status Label and Issues,
\* for every raw record.
NormalizationIdempotent ==
  TwiceCleaned =>
    /\ Len(recleaned.rows) = Len(cleaned.rows)
    /\ \A r \in Rows(cleaned) :
         /\ NumEq(Cell(recleaned, r, "Normalized Budget"), Cell(cleaned, r, "Normalized Budget"))
         /\ \A name \in {"Mandal", "Priority", "Status Label", "Issues"} :
              Cell(recleaned, r, name) = Cell(cleaned, r, name)

(***************************************************************************)
(* get_mock_data                                                           *)
(***************************************************************************)
MockColumns ==
  <<"Sl. No.", "Work Name", "Mandal", "Budget (Lakhs)", "Status", "Issues", "Priority">>

MockRow(sl, work, mandal, amount, status, issues, priority) ==
  <<IntVal(sl), StrVal(work), StrVal(mandal), IntVal(amount), StrVal(status), StrVal(issues),
    IntVal(priority)>>

pr_df ==
  [columns |-> MockColumns,
   rows |-> <<MockRow(1, "PWD Road T02", "Mahamutharam", 60, "Progress", "", 0),
              MockRow(2, "ZP Road Vajenepalli", "mahamutharam", 180, "Progress",
                      "Land Acquisition", 1),
              MockRow(3, "ZP Road Lingapur", "Mahamutharam", 93, "Progress", "", 0),
              MockRow(4, "Anganwadi Center 1", "", 16, "Completed", "", 0),
              MockRow(5, "Anganwadi Center 2", "Mahamutharam", 16, "", "Funds", 1)>>]

med_df ==
  [columns |-> MockColumns,
   rows |-> <<MockRow(1, "Nursing College", "Bhupalpally", 2600, "Retaining wall",
                      "Site Dispute", 1),
              MockRow(2, "Critical Care Block", "Bhupalpally", 2375, "Painting", "", 1),
              MockRow(3, "Sub Centre Regonda", "Regonda", 20, "Completed", "", 0),
              MockRow(4, "Sub Centre Thirumalagiri", "Regonda", 20, "Completed", "", 0)>>]

Sheet(name, frame) == [name |-> name, frame |-> frame]

get_mock_data ==
  <<Sheet("PR", clean_dataframe(pr_df, "PR")), Sheet("Medical", clean_dataframe(med_df, "Medical"))>>

(***************************************************************************)
(* The script run: data loading, master_df and the summary KPIs.           *)
(* data_sheets is the dict of cleaned sheets in insertion order.           *)
(***************************************************************************)
\* what the Google Sheet download or an uploaded file can hold
SheetColumns == <<"Work Name", "Present Stage", "Issues">>

Workbooks ==
  [w \in {"roads", "water", "blank", "nosheets"} |->
     CASE w = "roads" ->
            <<Sheet("PR", [columns |-> SheetColumns,
                           rows |-> <<<<StrVal("CC Road"), StrVal("Completed"), StrVal("-")>>,
                                      <<StrVal("ZP Road"), StrVal("Earth work"), StrVal("Funds")>>,
                                      <<StrVal("Culvert"), StrVal("Painting"), StrVal(" - ")>>>>])>>
       [] w = "water" ->
            <<Sheet("RWS", [columns |-> SheetColumns,
                            rows |-> <<<<StrVal("Bore Well"), Missing, StrVal("nan")>>,
                                       <<StrVal("Pipeline"), StrVal("Laying"), StrVal("NaN")>>,
                                       <<StrVal("Tank"), StrVal("Completed"), StrVal("x")>>,
                                       <<StrVal("Pump House"), StrVal("Roof"), Missing>>>>]),
              Sheet("Medical", [columns |-> SheetColumns, rows |-> <<>>])>>
       [] w = "blank" -> <<Sheet("Sheet1", [columns |-> <<>>, rows |-> <<>>])>>
       [] w = "nosheets" -> <<>>]

\* fetch_google_sheet: None ("failed") or the downloaded bytes
FetchResults == {"failed", "corrupt", "roads", "water", "blank", "nosheets"}

\* the files the user can upload, by file_id
UploadedFiles ==
  [f \in {"file1", "file2", "file3", "file4"} |->
     CASE f = "file1" -> "roads" [] f = "file2" -> "corrupt" [] f = "file3" -> "water"
       [] f = "file4" -> "nosheets"]

\* load_data: the dict of raw sheets, or None when pd.read_excel raises
load_data(content) ==
  IF content \in DOMAIN Workbooks
    THEN [read |-> TRUE, sheets |-> Workbooks[content]]
    ELSE [read |-> FALSE, sheets |-> <<>>]

\* {sheet_name: clean_dataframe(df, sheet_name) for sheet_name, df in raw_sheets.items()}
clean_sheets(raw_sheets) ==
  [i \in 1..Len(raw_sheets) |->
     Sheet(raw_sheets[i].name, clean_dataframe(raw_sheets[i].frame, raw_sheets[i].name))]

\* temp_data_sheets for every content that load_data can read
temp_data_sheets == [content \in DOMAIN Workbooks |-> clean_sheets(load_data(content).sheets)]

Keys(sheets) == {sheets[i].name : i \in 1..Len(sheets)}

\* the row r of a frame as a mapping from column label to cell
RowRecord(frame, r) ==
  [name \in {frame.columns[c] : c \in 1..Len(frame.columns)} |-> Cell(frame, r, name)]

\* pd.concat(data_sheets.values(), ignore_index=True)
RECURSIVE master_df(_)
master_df(sheets) ==
  IF sheets = <<>> THEN <<>>
  ELSE [r \in Rows(sheets[1].frame) |-> RowRecord(sheets[1].frame, r)]
         \o master_df(Tail(sheets))

\* the filter of issues_df without the length test
has_issues_any_length(row) ==
  /\ lower(row["Issues"].s) # "nan"
  /\ strip(row["Issues"].s) # "-"

\* the filter of issues_df comparing with "nan" without lower-casing
has_issues_case_sensitive(row) ==
  /\ Len(row["Issues"].s) > 1
  /\ row["Issues"].s # "nan"
  /\ strip(row["Issues"].s) # "-"

\* the three-part filter of issues_df
has_issues(row) ==
  /\ Len(row["Issues"].s) > 1
  /\ lower(row["Issues"].s) # "nan"
  /\ strip(row["Issues"].s) # "-"

Count(rows, Keep(_)) == Cardinality({r \in 1..Len(rows) : Keep(rows[r])})

is_completed(row) == row["Status Label"].s = "Completed"

(***************************************************************************)
(* The float arithmetic of completion_rate.  A double is the integer whose *)
(* binary digits are bits, least significant first, times 2^(-exp); it is  *)
(* rounded to 53 significant bits, to nearest, ties to even.               *)
(***************************************************************************)
MantissaBits == 53

RECURSIVE Pow2(_)
Pow2(k) == IF k = 0 THEN 1 ELSE 2 * Pow2(k - 1)

\* 20 binary digits at a time keep every product below 2^31
LimbBits == 20

\* (r * 2^k) % t, the remainder of the long division r / t in base 2 after k
\* more digits of the quotient, for r < t < 2^10
RECURSIVE Remainder(_, _, _)
Remainder(r, t, k) ==
  IF k <= LimbBits THEN (r * Pow2(k)) % t
  ELSE Remainder((r * Pow2(LimbBits)) % t, t, k - LimbBits)

\* the k-th digit of the quotient c / t after the binary point
QuotientBit(c, t, k) == (2 * Remainder(c, t, k - 1)) \div t

\* round to nearest, ties to even: are the kept digits rounded up
RoundsUp(twiceRest, unit, lastBit) ==
  twiceRest > unit \/ (twiceRest = unit /\ lastBit = 1)

\* bits + 1
Increment(bits) ==
  [i \in 1..(Len(bits) + 1) |->
     IF \A j \in 1..(i - 1) : bits[j] = 1
       THEN (IF i <= Len(bits) THEN 1 - bits[i] ELSE 1)
       ELSE (IF i <= Len(bits) THEN bits[i] ELSE 0)]

\* the integer written by bits[lo..hi]
RECURSIVE BitsToInt(_, _, _)
BitsToInt(bits, lo, hi) ==
  IF hi < lo THEN 0 ELSE bits[lo] + 2 * BitsToInt(bits, lo + 1, hi)

\* the position of the highest 1
BitLength(bits) ==
  CHOOSE n \in 0..Len(bits) :
    /\ n > 0 => bits[n] = 1
    /\ \A i \in (n + 1)..Len(bits) : bits[i] = 0

\* c / t for integers 0 < c < t < 256: the quotient is above 2^(-8), so that
\* its first digit 1 is among the first 8
true_divide(c, t) ==
  Local(CHOOSE k \in 1..8 : /\ QuotientBit(c, t, k) = 1
                          /\ \A h \in 1..(k - 1) : QuotientBit(c, t, h) = 0,
        LAMBDA first :
  Local([i \in 1..MantissaBits |-> QuotientBit(c, t, first + MantissaBits - i)],
        LAMBDA kept :
    [bits |-> IF RoundsUp(2 * Remainder(c, t, first + MantissaBits - 1), t, kept[1])
                THEN Increment(kept) ELSE kept,
     exp |-> first + MantissaBits - 1]))

\* the binary digits of v < 2^width, least significant first
DigitsOf(v, width) == [i \in 1..width |-> (v \div Pow2(i - 1)) % 2]

\* the integer written by the k-th group of LimbBits digits of bits (k = 0, 1, ...)
Limb(bits, k) ==
  BitsToInt(bits, LimbBits * k + 1,
            IF LimbBits * (k + 1) < Len(bits) THEN LimbBits * (k + 1) ELSE Len(bits))

\* the digits of the groups 0..k of bits * n and the carry out of them, for n < 2^10
RECURSIVE TimesSmall(_, _, _)
TimesSmall(bits, n, k) ==
  Local(IF k = 0 THEN [out |-> <<>>, carry |-> 0] ELSE TimesSmall(bits, n, k - 1), LAMBDA low :
  Local(n * Limb(bits, k) + low.carry, LAMBDA sum :
    [out |-> low.out \o DigitsOf(sum % Pow2(LimbBits), LimbBits),
     carry |-> sum \div Pow2(LimbBits)]))

\* x * 100 for a double x > 0
times_100(x) ==
  Local(TimesSmall(x.bits, 100, Len(x.bits) \div LimbBits + 1).out, LAMBDA product :
  Local(BitLength(product) - MantissaBits, LAMBDA dropped :
  Local([i \in 1..MantissaBits |-> product[dropped + i]], LAMBDA kept :
    [bits |-> IF RoundsUp(2 * BitsToInt(product, 1, dropped), Pow2(dropped), kept[1])
                THEN Increment(kept) ELSE kept,
     exp |-> x.exp - dropped])))

\* int(x): the digits of x before the binary point
int(x) == BitsToInt(x.bits, x.exp + 1, Len(x.bits))

\* int((completed_total / total_projects * 100)) if total_projects > 0 else 0;
\* 0 / t is 0.0 and t / t is 1.0, whose products with 100 are exact
completion_rate(completed_total, total_projects) ==
  IF total_projects > 0
    THEN IF completed_total = 0 THEN 0
         ELSE IF completed_total = total_projects THEN 100
         ELSE int(times_100(true_divide(completed_total, total_projects)))
    ELSE 0

\* the KPIs of tab_summary
summary_kpis(master) ==
  [rendered |-> TRUE,
   total_projects |-> Len(master),
   issues_df |-> SelectSeq(master, has_issues),
   total_issues |-> Count(master, has_issues),
   completed_total |-> Count(master, is_completed),
   completion_rate |-> completion_rate(Count(master, is_completed), Len(master))]

\* data_sheets.get(dept, pd.DataFrame())
get(sheets, dept) ==
  IF dept \in Keys(sheets)
    THEN sheets[CHOOSE i \in 1..Len(sheets) : sheets[i].name = dept].frame
    ELSE EmptyFrame

\* the options of the Mandal selectbox
mandals(frame) == {"All"} \cup {Cell(frame, r, "Mandal").s : r \in Rows(frame)}

\* filtered_df: the rows of the department's sheet that pass every chosen filter
filtered_rows(frame, flt) ==
  SelectSeq([r \in Rows(frame) |-> RowRecord(frame, r)],
            LAMBDA row :
              /\ flt.sel_mandal # "All" => row["Mandal"].s = flt.sel_mandal
              /\ flt.show_pending => row["Status Label"].s # "Completed"
              /\ flt.show_issues => has_issues(row)
              /\ flt.show_priority => row["Priority"] = IntVal(1))

\* the Snapshot of the Department view
department_snapshot(frame, flt) ==
  Local(filtered_rows(frame, flt), LAMBDA filtered_df :
    [rendered |-> TRUE,
     filtered_df |-> filtered_df,
     d_total |-> Len(filtered_df),
     d_completed |-> Count(filtered_df, is_completed)])

\* `if raw_sheets:` stores the cleaned sheets of content; None and the empty
\* dict leave the session as it is
store_sheets(content, kept, hash) ==
  Local(load_data(content), LAMBDA raw_sheets :
    IF raw_sheets.read /\ raw_sheets.sheets # <<>>
      THEN [sheets |-> temp_data_sheets[content], hash |-> hash, outcome |-> Loaded]
      ELSE [kept EXCEPT !.outcome = IF raw_sheets.read THEN NoSheets ELSE ReadFailed])

\* the data loading section with uploaded_file_hash stored ahead of load_data
LoadedData_hash_first(src, upl, refresh, fetched) ==
  LET needs_reload == src # last_source
      kept == [sheets |-> data_sheets, hash |-> uploaded_file_hash, outcome |-> NoLoad]
  IN  CASE src = GoogleSheet ->
             IF refresh \/ (needs_reload /\ data_sheets = <<>>)
               THEN IF fetched # "failed"
                      THEN store_sheets(fetched, kept, uploaded_file_hash)
                      ELSE [kept EXCEPT !.outcome = FetchFailed]
               ELSE kept
        [] src = UploadExcel ->
             IF upl # None /\ (upl # uploaded_file_hash \/ needs_reload)
               THEN store_sheets(UploadedFiles[upl], [kept EXCEPT !.hash = upl], upl)
               ELSE kept
        [] src = DemoData ->
             IF needs_reload \/ data_sheets = <<>>
               THEN [kept EXCEPT !.sheets = get_mock_data, !.outcome = DemoLoaded]
               ELSE kept

\* the data loading section: the session's sheets and upload hash after it,
\* and what the section came to
LoadedData(src, upl, refresh, fetched) ==
  LET needs_reload == src # last_source
      kept == [sheets |-> data_sheets, hash |-> uploaded_file_hash, outcome |-> NoLoad]
  IN  CASE src = GoogleSheet ->
             IF refresh \/ (needs_reload /\ data_sheets = <<>>)
               THEN IF fetched # "failed"
                      THEN store_sheets(fetched, kept, uploaded_file_hash)
                      ELSE [kept EXCEPT !.outcome = FetchFailed]
               ELSE kept
        [] src = UploadExcel ->
             IF upl # None /\ (upl # uploaded_file_hash \/ needs_reload)
               THEN store_sheets(UploadedFiles[upl], kept, upl)
               ELSE kept
        [] src = DemoData ->
             IF needs_reload \/ data_sheets = <<>>
               THEN [kept EXCEPT !.sheets = get_mock_data, !.outcome = DemoLoaded]
               ELSE kept

\* one run of the script with the widgets at src, upl and flt, showing view v.
\* Nothing is drawn below the sidebar when no data is loaded; the filter
\* widgets keep their values only while the Department table is drawn, and
\* the selectbox falls back to "All" when its value is no longer an option.
RunScript(src, upl, refresh, fetched, v, dept, flt) ==
  \E loaded \in {LoadedData(src, upl, refresh, fetched)} :
    \E master \in {master_df(loaded.sheets)} : \E table \in {get(loaded.sheets, dept)} :
      /\ filters' = IF loaded.sheets = <<>> \/ v # "Department" \/ table.rows = <<>>
                       THEN NoFilters
                     ELSE IF flt.sel_mandal \in mandals(table) THEN flt
                     ELSE [flt EXCEPT !.sel_mandal = "All"]
      /\ snapshot' = IF loaded.sheets = <<>> \/ v # "Department" \/ table.rows = <<>>
                        THEN NoSnapshot
                        ELSE department_snapshot(table, filters')
      /\ source_option' = src
      /\ uploaded_file' = upl
      /\ last_source' = src
      /\ data_sheets' = loaded.sheets
      /\ uploaded_file_hash' = loaded.hash
      /\ load_outcome' = loaded.outcome
      /\ view' = v
      /\ selected_dept' = dept
      /\ kpi' = IF loaded.sheets # <<>> /\ v = "Home" /\ master # <<>>
                  THEN summary_kpis(master)
                  ELSE NoKpi

InitSession ==
  /\ pc = "session"
  /\ value = Missing
  /\ budget = NotRun
  /\ description = Missing
  /\ project_type = ""
  /\ df = EmptyFrame
  /\ cleaned = EmptyFrame
  /\ recleaned = EmptyFrame
  /\ SessionStart

\* the page is loaded or reloaded with the widgets as they are
Rerun ==
  /\ \E fetched \in FetchResults :
       RunScript(source_option, uploaded_file, FALSE, fetched, view, selected_dept, filters)
  /\ UNCHANGED <<pc, calls>>

\* the radio in the sidebar is set to another source
SelectSource ==
  /\ \E src \in SourceOptions \ {source_option} : \E fetched \in FetchResults :
       RunScript(src, None, FALSE, fetched, view, selected_dept, filters)
  /\ UNCHANGED <<pc, calls>>

\* the Refresh Data button, shown for the Google Sheet source
ClickRefresh ==
  /\ source_option = GoogleSheet
  /\ \E fetched \in FetchResults :
       RunScript(source_option, uploaded_file, TRUE, fetched, view, selected_dept, filters)
  /\ UNCHANGED <<pc, calls>>

\* a file is put into, or taken out of, the uploader
UploadFile ==
  /\ source_option = UploadExcel
  /\ \E upl \in (DOMAIN UploadedFiles \cup {None}) \ {uploaded_file} :
       RunScript(source_option, upl, FALSE, "failed", view, selected_dept, filters)
  /\ UNCHANGED <<pc, calls>>

\* a department button of the Home view: switch_view('Department', dept), st.rerun()
ClickDepartment ==
  /\ kpi.rendered
  /\ \E dept \in Keys(data_sheets) :
       RunScript(source_option, uploaded_file, FALSE, "failed", "Department", dept, NoFilters)
  /\ UNCHANGED <<pc, calls>>

\* the Back button of the Department view: switch_view('Home'), st.rerun()
ClickBack ==
  /\ view = "Department"
  /\ data_sheets # <<>>
  /\ RunScript(source_option, uploaded_file, FALSE, "failed", "Home", None, NoFilters)
  /\ UNCHANGED <<pc, calls>>

\* a filter widget of the Department view is changed
SetFilters ==
  /\ snapshot.rendered
  /\ \E sel \in mandals(get(data_sheets, selected_dept)) : \E pending, issues, priority \in BOOLEAN :
       \E flt \in {[sel_mandal |-> sel, show_pending |-> pending, show_issues |-> issues,
                     show_priority |-> priority]} \ {filters} :
         RunScript(source_option, uploaded_file, FALSE, "failed", view, selected_dept, flt)
  /\ UNCHANGED <<pc, calls>>

Next ==
  Rerun \/ SelectSource \/ ClickRefresh \/ UploadFile \/ ClickDepartment \/ ClickBack \/ SetFilters

Spec == InitSession /\ [][Next]_vars

(***************************************************************************)
(* The summary KPIs on their own: a cleaned sheet of up to MaxTotal works, *)
(* the completed ones first.                                               *)
(***************************************************************************)
StatusSheet(total, completed) ==
  [columns |-> <<"Status Label", "Issues">>,
   rows |-> [r \in 1..total |->
               <<StrVal(IF r <= completed THEN "Completed" ELSE "In Progress"), StrVal("")>>]]

StatusSheets ==
  UNION {{StatusSheet(total, completed) : completed \in 0..total} : total \in 0..MaxTotal}

InitRate ==
  /\ pc = "summary"
  /\ cleaned \in StatusSheets
  /\ df = EmptyFrame
  /\ recleaned = EmptyFrame
  /\ value = Missing
  /\ budget = NotRun
  /\ description = Missing
  /\ project_type = ""
  /\ SessionStart

\* the Home view: a warning when master_df is empty, else the KPIs
Summarize ==
  /\ pc = "summary"
  /\ \E master \in {master_df(<<Sheet(DeptName, cleaned)>>)} :
       kpi' = IF master = <<>> THEN NoKpi ELSE summary_kpis(master)
  /\ pc' = "summary_done"
  /\ UNCHANGED <<calls, view, selected_dept, data_sheets, last_source, uploaded_file_hash,
                 source_option, uploaded_file, load_outcome, filters, snapshot>>

NextRate == Summarize

SpecRate == InitRate /\ [][NextRate]_vars

(***************************************************************************)
(* Properties of the completion rate (SpecRate).                           *)
(***************************************************************************)
\* C14: the completion rate equals completed-count * 100 / total-count
\* truncated toward zero to an integer, lies in 0..100, and is 0 when the
\* total-count is 0; no division by zero occurs.
CompletionRateTruncates ==
  /\ completion_rate(0, 0) = 0
  /\ kpi.rendered =>
       /\ kpi.total_projects > 0
       /\ kpi.completion_rate = (kpi.completed_total * 100) \div kpi.total_projects
       /\ kpi.completion_rate \in 0..100

(***************************************************************************)
(* Properties of the demo data (Spec).                                     *)
(***************************************************************************)
ShowsDemoSummary == last_source = DemoData /\ kpi.rendered

\* C8 as stated: on the demo data the summary shows 9 projects, 2 completed
\* works and 2 issues.
DemoKpisNineTwoTwo ==
  ShowsDemoSummary =>
    kpi.total_projects = 9 /\ kpi.completed_total = 2 /\ kpi.total_issues = 2

\* C8 amended: on the demo data the summary shows 9 projects, 3 completed works
\* (Anganwadi Center 1 and the two Sub Centres) and 3 issues (Land Acquisition,
\* Funds, Site Dispute).
DemoKpisNineThreeThree ==
  ShowsDemoSummary =>
    /\ Keys(data_sheets) = {"PR", "Medical"}
    /\ kpi.total_projects = 9 /\ kpi.completed_total = 3 /\ kpi.total_issues = 3

\* the Home view has shown the summary of the demo data
DemoKpisWitness ==
  ShowsDemoSummary /\ source_option = DemoData /\ view = "Home" /\ kpi.total_projects = 9

(***************************************************************************)
(* Properties of the has-issues filter (Spec).                             *)
(***************************************************************************)
HasIssuesRule(issues) ==
  Len(issues) > 1 /\ lower(issues) # "nan" /\ strip(issues) # "-"

IsPlaceholder(issues) == issues = "" \/ issues = "-" \/ lower(issues) = "nan"

IssuesOf(rows) == [i \in 1..Len(rows) |-> rows[i]["Issues"].s]

\* C11: the has-issues filter of the summary KPI and of the Department view's
\* "Issues Only" toggle keeps a record exactly when its Issues string is longer
\* than 1 and its lower-cased value is not "nan" and its trimmed value is not
\* "-"; no kept record has Issues equal to "", "-" or "nan" in any letter case.
HasIssuesKeepsExactly ==
  /\ kpi.rendered =>
       /\ kpi.issues_df =
            SelectSeq(master_df(data_sheets), LAMBDA row : HasIssuesRule(row["Issues"].s))
       /\ kpi.total_issues = Len(kpi.issues_df)
       /\ \A i \in 1..Len(kpi.issues_df) : ~IsPlaceholder(IssuesOf(kpi.issues_df)[i])
  /\ (snapshot.rendered /\ filters.show_issues) =>
       /\ snapshot.filtered_df =
            SelectSeq(filtered_rows(get(data_sheets, selected_dept),
                                    [filters EXCEPT !.show_issues = FALSE]),
                      LAMBDA row : HasIssuesRule(row["Issues"].s))
       /\ \A i \in 1..Len(snapshot.filtered_df) :
            ~IsPlaceholder(IssuesOf(snapshot.filtered_df)[i])

\* "Issues Only" alone on a sheet holding "-", "Funds" and " - " has kept "Funds"
HasIssuesKeepsExactlyWitness ==
  /\ snapshot.rendered
  /\ filters = [NoFilters EXCEPT !.show_issues = TRUE]
  /\ IssuesOf([r \in Rows(get(data_sheets, selected_dept)) |->
                 RowRecord(get(data_sheets, selected_dept), r)]) = <<"-", "Funds", " - ">>
  /\ IssuesOf(snapshot.filtered_df) = <<"Funds">>

(***************************************************************************)
(* Properties of the session (Spec).                                       *)
(***************************************************************************)
\* C15: in every reachable session state, whenever the view is 'Department'
\* the selected department is a key of the loaded data_sheets, and whenever
\* the view is 'Home' the selected department is None.
SelectedDeptIsLoaded ==
  /\ view = "Department" => selected_dept \in Keys(data_sheets)
  /\ view = "Home" => selected_dept = None

\* C16: a failed load never changes the loaded data.  When the Google Sheet
\* fetch returns None, or reading the fetched or uploaded workbook fails or
\* yields no sheets, data_sheets and uploaded_file_hash keep the values they had
\* before the run; data_sheets is only ever replaced as a whole, by the cleaned
\* sheets of every sheet of one workbook or by the cleaned demo sheets.
FailedLoadKeepsData ==
  [][/\ load_outcome' \in {FetchFailed, ReadFailed, NoSheets} =>
          /\ data_sheets' = data_sheets
          /\ uploaded_file_hash' = uploaded_file_hash
     /\ data_sheets' # data_sheets =>
          \/ /\ load_outcome' = DemoLoaded
             /\ data_sheets' = <<Sheet("PR", clean_dataframe(pr_df, "PR")),
                                 Sheet("Medical", clean_dataframe(med_df, "Medical"))>>
          \/ /\ load_outcome' = Loaded
             /\ \E w \in DOMAIN Workbooks :
                  /\ Workbooks[w] # <<>>
                  /\ Len(data_sheets') = Len(Workbooks[w])
                  /\ \A i \in 1..Len(Workbooks[w]) :
                       /\ data_sheets'[i].name = Workbooks[w][i].name
                       /\ data_sheets'[i].frame =
                            clean_dataframe(Workbooks[w][i].frame, Workbooks[w][i].name)]_vars

\* an unreadable file was uploaded after a good one: the sheets and the hash
\* of the good one are still there
FailedLoadKeepsDataWitness ==
  /\ load_outcome = ReadFailed
  /\ source_option = UploadExcel
  /\ uploaded_file = "file2"
  /\ uploaded_file_hash = "file1"
  /\ Keys(data_sheets) = {"PR"}
  /\ Len(data_sheets[1].frame.rows) = 3

====
